---- MODULE Spec2Model ----
(***************************************************************************)
(* Model of the promotion picker (src/src/promotable.rs).                  *)
(*                                                                         *)
(* Option<T> is a sequence of length at most one: None is <<>> and         *)
(* Some(x) is <<x>>.  A Square is a record [file, rank] with both          *)
(* coordinates in 0..7.  A SteadyTime is a count of milliseconds.          *)
(***************************************************************************)
EXTENDS Integers, Sequences, FiniteSets, TLC

None == <<>>

Some(x) == <<x>>

\* ------------------------------------------------------------------------
\* Bounds of the model and input domains
\* ------------------------------------------------------------------------

\* The clock is not advanced past MaxNow milliseconds.
MaxNow == 1500

\* Amounts of time (ms) that may pass between two handler calls.
TickSteps == {500, 1000}

\* start_promoting is called at most MaxStarts times when calls are counted.
MaxStarts == 2

\* The widget is at most MaxSize pixels wide and high.
MaxSize == 5

from_coords(f, r) == [file |-> f, rank |-> r]

e1 == from_coords(4, 0)
e2 == from_coords(4, 1)
e4 == from_coords(4, 3)
e5 == from_coords(4, 4)
e7 == from_coords(4, 6)
e8 == from_coords(4, 7)
d2 == from_coords(3, 1)
d4 == from_coords(3, 3)
d8 == from_coords(3, 7)

Ranks == 0..7

\* Squares the pointer can resolve to: the whole e file, and two squares of
\* the d file.
PointerSquares == {from_coords(4, r) : r \in Ranks} \cup {d8, d4}

\* Arguments start_promoting is called with.
OrigSquares == {e7, d2}

DestSquares == {e8, e1, d4}

Squares == PointerSquares \cup OrigSquares \cup DestSquares

\* The 64 squares of the board.
AllSquares == {from_coords(f, r) : f \in Ranks, r \in Ranks}

\* Allocated sizes of the widget.
WidgetSizes == {[w |-> w, h |-> h] : w \in 0..MaxSize, h \in 0..MaxSize}

\* Whole pixel coordinates of pointer events, on and around the widget.
PixelCoords == (0 - 1)..(MaxSize + 1)

\* Squares that carry a figurine in the initial position.
FigurineSquares == {e7, e5}

\* Sets of promotion roles the legality oracle may accept (standard chess,
\* and a variant in which promoting to a king is legal).
LegalOptions == {{"Queen", "Rook", "Bishop", "Knight"},
                 {"Queen", "Rook", "Bishop", "Knight", "King"}}

\* ------------------------------------------------------------------------
\* Collaborators
\* ------------------------------------------------------------------------

\* The roles in the order draw enumerates them.
Roles == <<"Queen", "Rook", "Bishop", "Knight", "King", "Pawn">>

from_bool(white) == IF white THEN "White" ELSE "Black"

fold(color, white, black) == IF color = "White" THEN white ELSE black

\* Board position of a square: (0.5 + file, 7.5 - rank), in half squares.
square_to_pos(sq) == <<2 * sq.file + 1, 15 - 2 * sq.rank>>

\* The legality oracle of the board state.
legal_move(st, orig, dest, role) ==
    role # None /\ role[1] \in st.legal

UserMove(orig, dest, role) ==
    [msg |-> "UserMove", orig |-> orig, dest |-> dest, role |-> role]

queue_draw_square(sq) == <<"queue_draw_square", sq>>

queue_draw == <<"queue_draw">>

VARIABLES
    promoting,  \* Promotable.promoting: Option<Promoting>
    pieces,     \* the figurines: square -> Option<[pos, time]>
    state,      \* the board state behind the legality oracle
    now,        \* SteadyTime::now(), in milliseconds
    lastOp,     \* the handler that ran last
    ctx,        \* ctx.square() of the last pointer event
    taken,      \* the local `promoting` of the last mouse_down (the take())
    inhibit,    \* return value of the last mouse_down
    stream,     \* messages the last handler emitted on ctx.stream()
    drawQueue,  \* redraw requests the last handler made, in order
    widget,     \* the DrawingArea: [w, h], its allocated width and height
    board_orientation,  \* the side at the bottom of the board
    utilOp,     \* the function of util.rs that ran last
    center,     \* the square whose centre was mapped forward, if any
    pos,        \* the (x, y) the last function of util.rs was given
    square,     \* result of the last pos_to_square
    inverted,   \* result of the last invert_pos
    nStarts,    \* number of start_promoting calls so far
    nMoves,     \* number of UserMove messages emitted so far
    started     \* arguments of the most recent start_promoting call

\* The state of the promotion picker.
pvars == <<promoting, pieces, state, now, lastOp, ctx, taken, inhibit,
           stream, drawQueue>>

\* The state of the coordinate mapper.
uvars == <<widget, board_orientation, utilOp, center, pos, square, inverted>>

\* The history of the calls and of the emitted messages.
cvars == <<nStarts, nMoves, started>>

vars == <<pvars, uvars, cvars>>

\* ------------------------------------------------------------------------
\* util.rs: the coordinate mapper
\*
\* An f64 is an exact fraction [num, den] with den > 0; rounding of the
\* floating point operations is not modelled, and rotate(PI) is the exact
\* half turn.  A Matrix is [xx, yy, x0, y0, den]: the map
\* (x, y) |-> ((xx * x + x0) / den, (yy * y + y0) / den).
\* ------------------------------------------------------------------------

Frac(n, d) == IF d < 0 THEN [num |-> 0 - n, den |-> 0 - d]
              ELSE [num |-> n, den |-> d]

floor(a) == a.num \div a.den

min(a, b) == IF a < b THEN a ELSE b

compute_matrix_scale_8(wd, o) ==
    LET size == min(wd.w, wd.h)
        turn == fold(o, 1, 0 - 1)
    IN  [xx |-> turn * size,
         yy |-> turn * size,
         x0 |-> 4 * wd.w - 4 * turn * size,
         y0 |-> 4 * wd.h - 4 * turn * size,
         den |-> 8]

\* translate(w / 2, h / 2), scale(size / 10), rotate(0 or PI),
\* translate(-4, -4).
compute_matrix(wd, o) ==
    LET size == min(wd.w, wd.h)
        turn == fold(o, 1, 0 - 1)
    IN  [xx |-> turn * size,
         yy |-> turn * size,
         x0 |-> 5 * wd.w - 4 * turn * size,
         y0 |-> 5 * wd.h - 4 * turn * size,
         den |-> 10]

\* Matrix::transform_point of the matrix m.
transform_point(m, pt) ==
    <<Frac(m.xx * pt[1].num + m.x0 * pt[1].den, m.den * pt[1].den),
      Frac(m.yy * pt[2].num + m.y0 * pt[2].den, m.den * pt[2].den)>>

\* Matrix::try_invert: Err (None) for a singular matrix, else the inverse,
\* kept as the matrix it inverts.
try_invert(m) ==
    IF m.xx * m.yy = 0 THEN None ELSE Some([inverse_of |-> m])

\* Matrix::transform_point of an inverse matrix.
inverse_transform_point(inv, pt) ==
    LET m == inv.inverse_of
    IN  <<Frac(m.den * pt[1].num - m.x0 * pt[1].den, m.xx * pt[1].den),
          Frac(m.den * pt[2].num - m.y0 * pt[2].den, m.yy * pt[2].den)>>

inverted_to_square_no_flip(pt) ==
    LET x == floor(pt[1])
        y == floor(pt[2])
    IN  IF 0 <= x /\ x <= 7 /\ 0 <= y /\ y <= 7
        THEN Some(from_coords(x, y))
        ELSE None

inverted_to_square_from_minus_1(pt) ==
    LET x == floor(pt[1])
        y == floor(pt[2])
    IN  IF 0 - 1 <= x /\ x <= 7 /\ 0 - 1 <= y /\ y <= 7
        THEN Some(from_coords(x, 7 - y))
        ELSE None

inverted_to_square(pt) ==
    LET x == floor(pt[1])
        y == floor(pt[2])
    IN  IF 0 <= x /\ x <= 7 /\ 0 <= y /\ y <= 7
        THEN Some(from_coords(x, 7 - y))
        ELSE None

pos_to_square(wd, o, pt) ==
    LET inv == try_invert(compute_matrix(wd, o))
    IN  IF inv = None THEN None
        ELSE inverted_to_square(inverse_transform_point(inv[1], pt))

invert_pos_or_origin(wd, o, pt) ==
    LET inv == try_invert(compute_matrix(wd, o))
    IN  IF inv = None THEN <<Frac(0, 1), Frac(0, 1)>>
        ELSE inverse_transform_point(inv[1], pt)

invert_pos(wd, o, pt) ==
    LET inv == try_invert(compute_matrix(wd, o))
    IN  IF inv = None THEN pt
        ELSE inverse_transform_point(inv[1], pt)

\* ------------------------------------------------------------------------
\* Promoting
\* ------------------------------------------------------------------------

\* Milliseconds since p.time; the code divides them by 1000.0.
elapsed(p) == now - p.time

MillisPerSecond == 1000

orientation(p) == from_bool(p.dest.rank > 4)

draw_rank_mirrored(p, offset) == fold(orientation(p), offset, 7 - offset)

\* Rank of the cell draw paints for the role at position offset (0..5).
draw_rank(p, offset) == fold(orientation(p), 7 - offset, offset)

\* The cells draw paints: one per role the oracle accepts.
draw(p, st) ==
    { [file    |-> p.dest.file,
       rank    |-> draw_rank(p, offset),
       role    |-> Roles[offset + 1],
       light   |-> (p.dest.file + draw_rank(p, offset)) % 2 = 1,
       hovered |-> /\ p.hover # None
                   /\ p.hover[1].file = p.dest.file
                   /\ p.hover[1].rank = draw_rank(p, offset)] :
      offset \in {o \in 0..5 :
                    legal_move(st, p.orig, p.dest, Some(Roles[o + 1]))} }

rank_role_mirrored(side, r) ==
    CASE r = fold(side, 0, 7) -> Some("Queen")
      [] r = fold(side, 1, 6) -> Some("Rook")
      [] r = fold(side, 2, 5) -> Some("Bishop")
      [] r = fold(side, 3, 4) -> Some("Knight")
      [] r = fold(side, 4, 3) -> Some("King")
      [] r = fold(side, 5, 2) -> Some("Pawn")
      [] OTHER -> None

\* The match of mouse_down on the rank of the clicked square.
rank_role(side, r) ==
    CASE r = fold(side, 7, 0) -> Some("Queen")
      [] r = fold(side, 6, 1) -> Some("Rook")
      [] r = fold(side, 5, 2) -> Some("Bishop")
      [] r = fold(side, 4, 3) -> Some("Knight")
      [] r = fold(side, 3, 4) -> Some("King")
      [] r = fold(side, 2, 5) -> Some("Pawn")
      [] OTHER -> None

click_role_any_file(p, sq) ==
    IF sq # None
    THEN rank_role(orientation(p), sq[1].rank)
    ELSE None

\* The role a pointer-down at ctx.square() = sq resolves to.
click_role(p, sq) ==
    IF sq # None /\ sq[1].file = p.dest.file
    THEN rank_role(orientation(p), sq[1].rank)
    ELSE None

\* ------------------------------------------------------------------------
\* Promotable
\* ------------------------------------------------------------------------

new_promoting_swapped(orig, dest) ==
    [orig |-> dest, dest |-> orig, hover |-> Some(dest), time |-> now]

new_promoting_no_hover(orig, dest) ==
    [orig |-> orig, dest |-> dest, hover |-> None, time |-> now]

new_promoting(orig, dest) ==
    [orig |-> orig, dest |-> dest, hover |-> Some(dest), time |-> now]

is_promoting_default_true(orig) ==
    IF promoting = None THEN TRUE ELSE promoting[1].orig = orig

is_promoting(orig) ==
    IF promoting = None THEN FALSE ELSE promoting[1].orig = orig

is_animating_default_true ==
    IF promoting = None THEN TRUE
    ELSE promoting[1].hover # None /\ elapsed(promoting[1]) < MillisPerSecond

is_animating ==
    IF promoting = None THEN FALSE
    ELSE promoting[1].hover # None /\ elapsed(promoting[1]) < MillisPerSecond

queue_animation_dest(pr) ==
    IF pr # None /\ pr[1].hover # None
    THEN <<queue_draw_square(pr[1].dest)>>
    ELSE <<>>

\* The redraw requests of queue_animation when self.promoting = pr.
queue_animation(pr) ==
    IF pr # None /\ pr[1].hover # None
    THEN <<queue_draw_square(pr[1].hover[1])>>
    ELSE <<>>

move_hover_keep_time(pr, sq) ==
    IF pr # None /\ pr[1].hover # sq
    THEN Some([pr[1] EXCEPT !.hover = sq])
    ELSE pr

move_hover_always_reset(pr, sq) ==
    IF pr # None
    THEN Some([pr[1] EXCEPT !.hover = sq, !.time = now])
    ELSE pr

\* self.promoting after the body of mouse_move.
move_hover(pr, sq) ==
    IF pr # None /\ pr[1].hover # sq
    THEN Some([pr[1] EXCEPT !.hover = sq, !.time = now])
    ELSE pr

\* The figurines after mouse_down took p.
reset_figurine(pcs, p) ==
    IF pcs[p.orig] # None
    THEN [pcs EXCEPT ![p.orig] =
            Some([pos |-> square_to_pos(p.dest), time |-> now])]
    ELSE pcs

\* The promotion picker after Promotable::new.
InitPicker ==
    /\ promoting = None
    /\ pieces = [sq \in Squares |->
                   IF sq \in FigurineSquares
                   THEN Some([pos |-> square_to_pos(sq), time |-> 0])
                   ELSE None]
    /\ state \in {[legal |-> l] : l \in LegalOptions}
    /\ now = 0
    /\ lastOp = "new"
    /\ ctx = None
    /\ taken = None
    /\ inhibit = FALSE
    /\ stream = <<>>
    /\ drawQueue = <<>>

\* No function of util.rs has been called.
InitUtil ==
    /\ utilOp = "none"
    /\ center = None
    /\ pos = None
    /\ square = None
    /\ inverted = None

\* Nothing has been called or emitted.
InitCount ==
    /\ nStarts = 0
    /\ nMoves = 0
    /\ started = None

Init ==
    /\ InitPicker
    /\ InitUtil
    /\ InitCount
    /\ widget = [w |-> MaxSize, h |-> MaxSize]
    /\ board_orientation = "White"

start_promoting(orig, dest) ==
    /\ promoting' = Some(new_promoting(orig, dest))
    /\ lastOp' = "start_promoting"
    /\ ctx' = None
    /\ taken' = None
    /\ inhibit' = FALSE
    /\ stream' = <<>>
    /\ drawQueue' = <<>>
    /\ UNCHANGED <<pieces, state, now>>

mouse_move(sq) ==
    /\ promoting' = move_hover(promoting, sq)
    /\ drawQueue' = queue_animation(promoting) \o queue_animation(promoting')
    /\ lastOp' = "mouse_move"
    /\ ctx' = sq
    /\ taken' = None
    /\ inhibit' = FALSE
    /\ stream' = <<>>
    /\ UNCHANGED <<pieces, state, now>>

mouse_down_always_redraws(sq) ==
    /\ taken' = promoting
    /\ promoting' = None
    /\ lastOp' = "mouse_down"
    /\ ctx' = sq
    /\ drawQueue' = <<queue_draw>>
    /\ IF promoting # None
       THEN LET p == promoting[1]
                role == click_role(p, sq)
            IN  /\ pieces' = reset_figurine(pieces, p)
                /\ IF role # None
                   THEN /\ stream' = <<UserMove(p.orig, p.dest, role)>>
                        /\ inhibit' = TRUE
                   ELSE /\ stream' = <<>>
                        /\ inhibit' = FALSE
       ELSE /\ stream' = <<>>
            /\ inhibit' = FALSE
            /\ UNCHANGED pieces
    /\ UNCHANGED <<state, now>>

mouse_down_without_take(sq) ==
    /\ taken' = promoting
    /\ promoting' = promoting
    /\ lastOp' = "mouse_down"
    /\ ctx' = sq
    /\ IF promoting # None
       THEN LET p == promoting[1]
                role == click_role(p, sq)
            IN  /\ drawQueue' = <<queue_draw>>
                /\ pieces' = reset_figurine(pieces, p)
                /\ IF role # None
                   THEN /\ stream' = <<UserMove(p.orig, p.dest, role)>>
                        /\ inhibit' = TRUE
                   ELSE /\ stream' = <<>>
                        /\ inhibit' = FALSE
       ELSE /\ drawQueue' = <<>>
            /\ stream' = <<>>
            /\ inhibit' = FALSE
            /\ UNCHANGED pieces
    /\ UNCHANGED <<state, now>>

mouse_down(sq) ==
    /\ taken' = promoting
    /\ promoting' = None
    /\ lastOp' = "mouse_down"
    /\ ctx' = sq
    /\ IF promoting # None
       THEN LET p == promoting[1]
                role == click_role(p, sq)
            IN  /\ drawQueue' = <<queue_draw>>
                /\ pieces' = reset_figurine(pieces, p)
                /\ IF role # None
                   THEN /\ stream' = <<UserMove(p.orig, p.dest, role)>>
                        /\ inhibit' = TRUE
                   ELSE /\ stream' = <<>>
                        /\ inhibit' = FALSE
       ELSE /\ drawQueue' = <<>>
            /\ stream' = <<>>
            /\ inhibit' = FALSE
            /\ UNCHANGED pieces
    /\ UNCHANGED <<state, now>>

\* Time passes between two handler calls.
Tick ==
    /\ \E d \in TickSteps :
         /\ now + d <= MaxNow
         /\ now' = now + d
    /\ UNCHANGED <<promoting, pieces, state, lastOp, ctx, taken, inhibit,
                   stream, drawQueue>>

StartPromoting == \E orig \in OrigSquares, dest \in DestSquares :
                     start_promoting(orig, dest) /\ UNCHANGED <<uvars, cvars>>

\* ctx.square() of a pointer event: None when the pointer is off the board.
PointerInputs == {None} \cup {Some(s) : s \in PointerSquares}

MouseMove == \E sq \in PointerInputs : mouse_move(sq) /\ UNCHANGED <<uvars, cvars>>

MouseDown == \E sq \in PointerInputs : mouse_down(sq) /\ UNCHANGED <<uvars, cvars>>

TimePasses == Tick /\ UNCHANGED <<uvars, cvars>>

Next == StartPromoting \/ MouseMove \/ MouseDown \/ TimePasses

Spec == Init /\ [][Next]_vars

\* ------------------------------------------------------------------------
\* The coordinate mapper on its own: a widget of any size and either
\* orientation, on which the functions of util.rs are called.
\* ------------------------------------------------------------------------

\* The centre of the cell of square s, in board coordinates.
square_center(s) == <<Frac(2 * s.file + 1, 2), Frac(15 - 2 * s.rank, 2)>>

InitMapper ==
    /\ InitPicker
    /\ InitCount
    /\ state.legal = {"Queen", "Rook", "Bishop", "Knight"}
    /\ InitUtil
    /\ widget \in WidgetSizes
    /\ board_orientation \in {"White", "Black"}

\* pos_to_square is called with the pixel (x, y).
PosToSquare ==
    /\ \E x \in PixelCoords, y \in PixelCoords :
         /\ pos' = Some(<<Frac(x, 1), Frac(y, 1)>>)
         /\ square' = pos_to_square(widget, board_orientation, pos'[1])
    /\ utilOp' = "pos_to_square"
    /\ center' = None
    /\ inverted' = None
    /\ UNCHANGED <<widget, board_orientation, pvars, cvars>>

\* invert_pos is called with the pixel (x, y).
InvertPos ==
    /\ \E x \in PixelCoords, y \in PixelCoords :
         /\ pos' = Some(<<Frac(x, 1), Frac(y, 1)>>)
         /\ inverted' = Some(invert_pos(widget, board_orientation, pos'[1]))
    /\ utilOp' = "invert_pos"
    /\ center' = None
    /\ square' = None
    /\ UNCHANGED <<widget, board_orientation, pvars, cvars>>

\* The centre of a square is mapped to the widget by the matrix of
\* compute_matrix, and pos_to_square is called with the result.
RoundTrip ==
    /\ \E s \in AllSquares :
         /\ center' = Some(s)
         /\ pos' = Some(transform_point(
                          compute_matrix(widget, board_orientation),
                          square_center(s)))
         /\ square' = pos_to_square(widget, board_orientation, pos'[1])
    /\ utilOp' = "round_trip"
    /\ inverted' = None
    /\ UNCHANGED <<widget, board_orientation, pvars, cvars>>

NextMapper == PosToSquare \/ InvertPos \/ RoundTrip

SpecMapper == InitMapper /\ [][NextMapper]_vars

\* ------------------------------------------------------------------------
\* The promotion picker with its calls and emitted messages counted.  The
\* handlers are called at one instant: none of them reads the clock to decide
\* what it emits.
\* ------------------------------------------------------------------------

CountedStart ==
    /\ nStarts < MaxStarts
    /\ \E orig \in OrigSquares, dest \in DestSquares :
         /\ start_promoting(orig, dest)
         /\ started' = Some([orig |-> orig, dest |-> dest])
    /\ nStarts' = nStarts + 1
    /\ UNCHANGED <<nMoves, uvars>>

CountedMove ==
    /\ \E sq \in PointerInputs : mouse_move(sq)
    /\ UNCHANGED <<cvars, uvars>>

CountedDown ==
    /\ \E sq \in PointerInputs : mouse_down(sq)
    /\ nMoves' = nMoves + Len(stream')
    /\ UNCHANGED <<nStarts, started, uvars>>

NextCount == CountedStart \/ CountedMove \/ CountedDown

SpecCount == Init /\ [][NextCount]_vars

TypeOK ==
    /\ now \in 0..MaxNow
    /\ Len(promoting) <= 1
    /\ Len(stream) <= 1
    /\ Len(drawQueue) <= 2

\* ------------------------------------------------------------------------
\* Properties
\* ------------------------------------------------------------------------

\* Rank of the picker cell at position offset (0 = Queen .. 5 = Pawn): the
\* rank-offset table, 7 - offset when oriented up and offset when down.
TableRank(dest, offset) == IF dest.rank > 4 THEN 7 - offset ELSE offset

\* The step is a pointer-down that finds a promotion in progress.
DownInChoosing == promoting # None /\ lastOp' = "mouse_down"

\* The last handler was a pointer-down that found a promotion in progress.
AfterDownInChoosing == lastOp = "mouse_down" /\ taken # None

\* C1: while a promotion is in progress, a pointer-down at a square off the
\* destination's file, or at a rank whose role the oracle rejects, emits no
\* move, returns handled = false and resets the figurine at the origin.
C1_RejectedClickCancels ==
    [][\A s \in PointerSquares :
         (/\ DownInChoosing
          /\ ctx' = Some(s)
          /\ \/ s.file # promoting[1].dest.file
             \/ \E o \in 0..5 :
                  /\ s.rank = TableRank(promoting[1].dest, o)
                  /\ ~legal_move(state, promoting[1].orig,
                                 promoting[1].dest, Some(Roles[o + 1])))
         => /\ stream' = <<>>
            /\ inhibit' = FALSE
            /\ pieces[promoting[1].orig] # None =>
                 pieces'[promoting[1].orig] =
                   Some([pos |-> square_to_pos(promoting[1].dest),
                         time |-> now])]_vars

\* C2: while a promotion (o, d) is in progress, a pointer-down on d's file at
\* the rank of a role the oracle accepts emits exactly one UserMove
\* (o, d, Some(role)) and returns handled = true.
C2_LegalClickEmitsMove ==
    AfterDownInChoosing /\ ctx # None /\ ctx[1].file = taken[1].dest.file =>
      \A o \in 0..5 :
        (/\ ctx[1].rank = TableRank(taken[1].dest, o)
         /\ legal_move(state, taken[1].orig, taken[1].dest,
                       Some(Roles[o + 1])))
        => /\ stream = <<UserMove(taken[1].orig, taken[1].dest,
                                  Some(Roles[o + 1]))>>
           /\ inhibit = TRUE

C2_Witness ==
    /\ AfterDownInChoosing
    /\ taken[1].orig = d2 /\ taken[1].dest = e1
    /\ ctx = Some(e2)
    /\ stream = <<UserMove(d2, e1, Some("Rook"))>>
    /\ inhibit = TRUE

\* C3: every pointer-down received while a promotion is in progress leaves
\* the picker idle: no square is promoting and nothing is animating.
C3_DownAlwaysIdle ==
    AfterDownInChoosing =>
      /\ promoting = None
      /\ \A s \in Squares : ~is_promoting(s)
      /\ ~is_animating

\* A pointer-down off the board, while the picker was animating.
C3_Witness ==
    /\ AfterDownInChoosing
    /\ ctx = None
    /\ taken[1].hover # None
    /\ now = taken[1].time
    /\ inhibit = FALSE

\* C4: after start_promoting(o, d), from any state, is_promoting(o) holds
\* and is_promoting(s) fails for every other square s; there is one
\* promotion in flight.
C4_StartPromotingOnlyOrigin ==
    [][\A o \in OrigSquares, d \in DestSquares :
         start_promoting(o, d) =>
           /\ Len(promoting') = 1
           /\ is_promoting(o)'
           /\ \A s \in Squares \ {o} : ~is_promoting(s)']_vars

\* A promotion from d2 started while the figurine of e7 is still where an
\* earlier promotion from e7 put it.
C4_Witness ==
    /\ lastOp = "start_promoting"
    /\ is_promoting(d2)
    /\ ~is_promoting(e7)
    /\ pieces[e7] # None /\ pieces[e7][1].pos = square_to_pos(e8)

\* The step is a pointer-move, in a promotion, that changes the hover.
HoverChange ==
    /\ promoting # None
    /\ lastOp' = "mouse_move"
    /\ promoting' # None
    /\ promoting'[1].hover # promoting[1].hover

\* C5 as stated: is_animating holds right after every hover change of a
\* pointer-move, the change to no square included, and fails once a second
\* has passed since the change.
C5_AnimatingAfterAnyHoverChange ==
    /\ [][HoverChange => is_animating']_vars
    /\ [](promoting # None /\ elapsed(promoting[1]) >= MillisPerSecond
            => ~is_animating)

\* C5, amended: right after a hover change of a pointer-move, is_animating
\* holds iff the new hover is a square (it fails when the pointer left the
\* board); the hover time is the time of the change; and is_animating fails
\* once a second has passed since the change.
C5_AnimatingAfterHoverChangeToSquare ==
    /\ [][HoverChange =>
            /\ is_animating' <=> promoting'[1].hover # None
            /\ promoting'[1].time = now]_vars
    /\ [](promoting # None /\ elapsed(promoting[1]) >= MillisPerSecond
            => ~is_animating)

\* The hover went from e8 to e5 after the clock had advanced, and a second
\* later the animation is over.
C5_Witness ==
    /\ lastOp = "mouse_move"
    /\ drawQueue = <<queue_draw_square(e8), queue_draw_square(e5)>>
    /\ promoting # None
    /\ promoting[1].hover = Some(e5)
    /\ promoting[1].time > 0
    /\ elapsed(promoting[1]) >= MillisPerSecond
    /\ ~is_animating

\* The promotion e7-e8 with the oracle accepting exactly Queen, Rook, Bishop
\* and Knight was clicked at square s.
ExampleClick(s) ==
    /\ AfterDownInChoosing
    /\ taken[1].orig = e7 /\ taken[1].dest = e8
    /\ state.legal = {"Queen", "Rook", "Bishop", "Knight"}
    /\ ctx = Some(s)

Cancelled == stream = <<>> /\ inhibit = FALSE

\* C6 as stated: in the example, a click at e8 emits UserMove(e7, e8, Queen),
\* a click at e5 cancels and a click at d8 cancels.
C6_ExampleE5Cancels ==
    /\ ExampleClick(e8) =>
         stream = <<UserMove(e7, e8, Some("Queen"))>> /\ inhibit = TRUE
    /\ ExampleClick(e5) => Cancelled
    /\ ExampleClick(d8) => Cancelled

\* C6, amended: in the example, a click at e8 emits UserMove(e7, e8, Queen),
\* a click at e5 emits UserMove(e7, e8, Knight) with handled = true (e5 is
\* the fourth cell of the picker), and a click at d8 cancels.
C6_ExampleE5Knight ==
    /\ ExampleClick(e8) =>
         stream = <<UserMove(e7, e8, Some("Queen"))>> /\ inhibit = TRUE
    /\ ExampleClick(e5) =>
         stream = <<UserMove(e7, e8, Some("Knight"))>> /\ inhibit = TRUE
    /\ ExampleClick(d8) => Cancelled

C6_Witness == ExampleClick(e5) /\ stream # <<>>

\* C7: on the destination file, ranks 7,6,5,4,3,2 resolve to Queen, Rook,
\* Bishop, Knight, King, Pawn when the destination is on rank 7, and ranks
\* 0,1,2,3,4,5 to the same roles when it is on rank 0; other ranks resolve
\* to no role; and each cell draw paints is on the rank whose click resolves
\* to the role of the cell.
C7_RankOffsetTable ==
    AfterDownInChoosing /\ ctx # None /\ ctx[1].file = taken[1].dest.file =>
      LET r == ctx[1].rank
          d == taken[1].dest
          role == IF stream = <<>> THEN None ELSE stream[1].role
      IN  /\ d.rank = 7 =>
                role = IF r >= 2 THEN Some(Roles[(7 - r) + 1]) ELSE None
          /\ d.rank = 0 =>
                role = IF r <= 5 THEN Some(Roles[r + 1]) ELSE None
          /\ \A cell \in draw(taken[1], state) :
                /\ cell.file = d.file
                /\ cell.rank = r => role = Some(cell.role)

\* A click on the cell draw paints for the Bishop of a promotion on rank 0.
C7_Witness ==
    /\ AfterDownInChoosing
    /\ taken[1].dest = e1
    /\ ctx = Some(from_coords(4, 2))
    /\ \E cell \in draw(taken[1], state) :
          cell.rank = 2 /\ cell.role = "Bishop"
    /\ stream # <<>> /\ stream[1].role = Some("Bishop")

\* C8: a cell is drawn for a role iff the oracle accepts the role, and a
\* click on a cell emits a move iff draw paints that cell.
C8_ClickActiveIffDrawn ==
    AfterDownInChoosing /\ ctx # None =>
      /\ \A o \in 0..5 :
           (\E cell \in draw(taken[1], state) : cell.role = Roles[o + 1])
           <=> legal_move(state, taken[1].orig, taken[1].dest,
                          Some(Roles[o + 1]))
      /\ stream # <<>> <=>
           \E cell \in draw(taken[1], state) :
              cell.file = ctx[1].file /\ cell.rank = ctx[1].rank

\* C9: a pointer-down that resolves to a move leaves every figurine as it
\* was; a cancelling pointer-down sets the position of the figurine at the
\* origin to the position of the destination and its time to now, and
\* leaves the other figurines as they were.
C9_FigurineChangedOnlyOnCancel ==
    [][DownInChoosing =>
         /\ inhibit' = TRUE => pieces' = pieces
         /\ inhibit' = FALSE =>
              /\ pieces[promoting[1].orig] # None =>
                   pieces'[promoting[1].orig] =
                     Some([pos |-> square_to_pos(promoting[1].dest),
                           time |-> now])
              /\ \A s \in Squares \ {promoting[1].orig} :
                   pieces'[s] = pieces[s]]_vars

\* C10: a pointer-move in a promotion that changes the hover requests a
\* redraw of the square hovered before and of the square hovered after, in
\* this order, each for exactly that square, and none for a side on which no
\* square is hovered.
C10_RedrawBeforeAndAfter ==
    [][HoverChange =>
         drawQueue' =
           (IF promoting[1].hover = None THEN <<>>
            ELSE <<queue_draw_square(promoting[1].hover[1])>>)
           \o (IF ctx' = None THEN <<>>
               ELSE <<queue_draw_square(ctx'[1])>>)]_vars

\* The pointer left the board from d4: one request, for d4.
C10_Witness ==
    /\ lastOp = "mouse_move"
    /\ promoting # None
    /\ promoting[1].hover = None
    /\ ctx = None
    /\ drawQueue = <<queue_draw_square(d4)>>

\* The step is a call of start_promoting.
StartStep == \E o \in OrigSquares, d \in DestSquares : start_promoting(o, d)

\* C11 as stated: in every reachable state with a promotion in progress the
\* destination is on rank 7 or rank 0.
C11_DestOnLastRank ==
    promoting # None => promoting[1].dest.rank \in {0, 7}

\* C11, amended: the destination of the promotion in progress is the
\* destination start_promoting was last called with (start_promoting does
\* not look at its rank), and no pointer-move, pointer-down or passing of
\* time changes it; so it is on rank 7 or 0 when the caller passed such a
\* square.
C11_DestIsStartArgument ==
    [][/\ \A o \in OrigSquares, d \in DestSquares :
            start_promoting(o, d) =>
              /\ promoting'[1].dest = d
              /\ d.rank \in {0, 7} => promoting'[1].dest.rank \in {0, 7}
       /\ promoting' # None /\ ~StartStep =>
            /\ promoting # None
            /\ promoting'[1].dest = promoting[1].dest]_vars

\* A promotion to e1 whose hover has moved away from the destination.
C11_Witness ==
    /\ lastOp = "mouse_move"
    /\ promoting # None
    /\ promoting[1].dest = e1
    /\ promoting[1].hover = Some(e5)

\* C16: a pointer-move in a promotion sets the hover to the resolved square
\* (or none) and the hover time to now iff the resolved square differs from
\* the hover; otherwise it leaves both as they were, so that the animation
\* is not restarted and is over a second after the last change; it never
\* changes the origin or the destination.
C16_MoveUpdatesHoverOnlyOnChange ==
    /\ [][\A sq \in PointerInputs :
            promoting # None /\ mouse_move(sq) =>
              /\ promoting' # None
              /\ promoting'[1].orig = promoting[1].orig
              /\ promoting'[1].dest = promoting[1].dest
              /\ promoting'[1].hover = sq
              /\ promoting'[1].time =
                   IF sq # promoting[1].hover THEN now
                   ELSE promoting[1].time]_vars
    /\ [](lastOp = "mouse_move" /\ promoting # None
          /\ now - promoting[1].time >= MillisPerSecond => ~is_animating)

\* Pointer-moves inside e5, more than a second after the hover went to e5:
\* the hover time was not reset and the animation is over.
C16_Witness ==
    /\ lastOp = "mouse_move"
    /\ ctx = Some(e5)
    /\ drawQueue = <<queue_draw_square(e5), queue_draw_square(e5)>>
    /\ promoting # None
    /\ promoting[1].hover = Some(e5)
    /\ promoting[1].time = 500
    /\ now = 1500
    /\ ~is_animating

\* C17: start_promoting(origin, destination) leaves a promotion with
\* hover = Some(destination) and time = now; right afterwards is_animating
\* holds and queue_animation requests a redraw of the destination square
\* and of nothing else.
C17_StartHoversDestination ==
    [][\A o \in OrigSquares, d \in DestSquares :
         start_promoting(o, d) =>
           /\ promoting' = Some([orig |-> o, dest |-> d,
                                 hover |-> Some(d), time |-> now])
           /\ is_animating'
           /\ queue_animation(promoting') = <<queue_draw_square(d)>>]_vars

\* A promotion started after the clock has advanced.
C17_Witness ==
    /\ lastOp = "start_promoting"
    /\ now = 1000
    /\ promoting # None
    /\ promoting[1].time = 1000
    /\ promoting[1].hover = Some(promoting[1].dest)
    /\ is_animating

\* C18: with no promotion in progress, pointer-down returns handled =
\* false, emits nothing, requests no redraw and changes no figurine;
\* pointer-move changes nothing and requests no redraw; is_animating and
\* is_promoting are false; and only start_promoting leaves the idle state.
C18_IdleHandlersAreNoOps ==
    /\ [][promoting = None =>
            /\ \A sq \in PointerInputs :
                 /\ mouse_down(sq) =>
                      /\ inhibit' = FALSE
                      /\ stream' = <<>>
                      /\ drawQueue' = <<>>
                      /\ pieces' = pieces
                      /\ promoting' = None
                 /\ mouse_move(sq) =>
                      /\ drawQueue' = <<>>
                      /\ stream' = <<>>
                      /\ UNCHANGED <<promoting, pieces>>
            /\ promoting' # None => StartStep]_vars
    /\ [](promoting = None =>
            ~is_animating /\ \A s \in Squares : ~is_promoting(s))

\* A pointer-down on the Queen cell of a promotion that an earlier
\* pointer-down has already consumed.
C18_Witness ==
    /\ promoting = None
    /\ lastOp = "mouse_down"
    /\ taken = None
    /\ ctx = Some(e8)
    /\ pieces[e7] # None /\ pieces[e7][1].pos = square_to_pos(e8)
    /\ inhibit = FALSE
    /\ stream = <<>>
    /\ drawQueue = <<>>

\* The fraction a lies in [k, k + 1).
InUnit(a, k) == k * a.den <= a.num /\ a.num < (k + 1) * a.den

SameFrac(a, b) == a.num * b.den = b.num * a.den

\* The widget has a positive width and a positive height.
Sized == widget.w > 0 /\ widget.h > 0

\* C12 as stated: for every widget size and both orientations, the pixel at
\* the centre of square s maps back to Some(s).
C12_RoundTripAnySize ==
    utilOp = "round_trip" => square = center

\* C12, amended: for every widget of positive width and height and both
\* orientations, the pixel at the centre of square s maps back to Some(s),
\* for each of the 64 squares; with a zero width or height it maps to none.
C12_RoundTripPositiveSize ==
    utilOp = "round_trip" =>
      /\ Sized => square = center
      /\ ~Sized => square = None

\* The centre of a1 on a 5 x 3 widget seen from the other side.
C12_Witness ==
    /\ utilOp = "round_trip"
    /\ widget = [w |-> 5, h |-> 3]
    /\ board_orientation = "Black"
    /\ center = Some(from_coords(0, 0))
    /\ square = Some(from_coords(0, 0))

\* C13: on a widget with an invertible matrix, pos_to_square returns
\* Some(file = floor(x), rank = 7 - floor(y)) of the inverted coordinates
\* (x, y) exactly when both floors are in 0..7, and none otherwise; a point
\* on a grid line belongs to the cell that starts there.
C13_FloorsIntoCells ==
    utilOp = "pos_to_square" /\ Sized =>
      LET u == invert_pos(widget, board_orientation, pos[1])
      IN  /\ \A f \in Ranks, k \in Ranks :
                InUnit(u[1], f) /\ InUnit(u[2], k)
                => square = Some(from_coords(f, 7 - k))
          /\ square # None =>
                \E f \in Ranks, k \in Ranks :
                  InUnit(u[1], f) /\ InUnit(u[2], k)

\* The pixel (2, 1) of a 5 x 5 widget is the corner (3, 1) of the grid: it
\* belongs to file 3 and rank 6.
C13_Witness ==
    /\ utilOp = "pos_to_square"
    /\ widget = [w |-> 5, h |-> 5]
    /\ board_orientation = "White"
    /\ pos = Some(<<Frac(2, 1), Frac(1, 1)>>)
    /\ SameFrac(invert_pos(widget, board_orientation, pos[1])[1], Frac(3, 1))
    /\ SameFrac(invert_pos(widget, board_orientation, pos[1])[2], Frac(1, 1))
    /\ square = Some(from_coords(3, 6))

\* C14: on a widget of zero width or height pos_to_square returns none for
\* every pixel and invert_pos returns the pixel it was given.
C14_ZeroSizeFallbacks ==
    ~Sized =>
      /\ utilOp = "pos_to_square" => square = None
      /\ utilOp = "invert_pos" => inverted = pos

\* invert_pos on a widget of width 0.
C14_Witness ==
    /\ widget = [w |-> 0, h |-> 4]
    /\ utilOp = "invert_pos"
    /\ pos = Some(<<Frac(3, 1), Frac(2, 1)>>)
    /\ inverted = pos

\* Widget coordinates of the board point (x, x).
BoardPoint(x) ==
    transform_point(compute_matrix(widget, board_orientation),
                    <<Frac(x, 1), Frac(x, 1)>>)

\* The distance of the fractions a and b is n / d.
Apart(a, b, n, d) ==
    \/ (a.num * b.den - b.num * a.den) * d = n * a.den * b.den
    \/ (b.num * a.den - a.num * b.den) * d = n * a.den * b.den

\* The fractions a and b lie at the same distance on either side of n / 2.
Around(a, b, n) == (a.num * b.den + b.num * a.den) = n * a.den * b.den

\* C15 as stated: the 8 x 8 board spans min(width, height) pixels along
\* each axis, centred in the widget.
C15_BoardSpansWidget ==
    utilOp = "round_trip" =>
      /\ Apart(BoardPoint(0)[1], BoardPoint(8)[1],
               min(widget.w, widget.h), 1)
      /\ Apart(BoardPoint(0)[2], BoardPoint(8)[2],
               min(widget.w, widget.h), 1)
      /\ Around(BoardPoint(0)[1], BoardPoint(8)[1], widget.w)
      /\ Around(BoardPoint(0)[2], BoardPoint(8)[2], widget.h)

\* C15, amended: the transform scales uniformly so that min(width, height)
\* maps to 10 board units; the 8 x 8 board spans 8/10 of min(width, height)
\* pixels along each axis, centred in the widget, with a margin of one
\* board unit around it.
C15_BoardSpansFourFifths ==
    utilOp = "round_trip" =>
      /\ Apart(BoardPoint(0)[1], BoardPoint(8)[1],
               8 * min(widget.w, widget.h), 10)
      /\ Apart(BoardPoint(0)[2], BoardPoint(8)[2],
               8 * min(widget.w, widget.h), 10)
      /\ Apart(BoardPoint(0 - 1)[1], BoardPoint(9)[1],
               min(widget.w, widget.h), 1)
      /\ Apart(BoardPoint(0 - 1)[2], BoardPoint(9)[2],
               min(widget.w, widget.h), 1)
      /\ Around(BoardPoint(0)[1], BoardPoint(8)[1], widget.w)
      /\ Around(BoardPoint(0)[2], BoardPoint(8)[2], widget.h)

\* A 5 x 3 widget: the board is the square from (1.3, 0.3) to (3.7, 2.7),
\* and the centre of h8 was mapped with this transform.
C15_Witness ==
    /\ widget = [w |-> 5, h |-> 3]
    /\ board_orientation = "White"
    /\ SameFrac(BoardPoint(0)[1], Frac(13, 10))
    /\ SameFrac(BoardPoint(8)[2], Frac(27, 10))
    /\ utilOp = "round_trip"
    /\ center = Some(from_coords(7, 7))
    /\ square = center

\* C19: the number of UserMove messages emitted never exceeds the number of
\* start_promoting calls; a message is emitted only by a pointer-down that
\* finds a promotion in progress, at most one per pointer-down, and it
\* carries the origin and destination of the most recent start_promoting.
C19_AtMostOneMovePerPromotion ==
    /\ [](nMoves <= nStarts)
    /\ [][nMoves' # nMoves =>
            /\ nMoves' = nMoves + 1
            /\ promoting # None
            /\ lastOp' = "mouse_down"
            /\ started # None
            /\ stream'[1].orig = started[1].orig
            /\ stream'[1].dest = started[1].dest]_vars
    /\ [][stream' # <<>> /\ stream' # stream => nMoves' = nMoves + 1]_vars

\* Two promotions, the first replaced by a second start_promoting before
\* any click: one move, for the second one.
C19_Witness ==
    /\ nStarts = 2
    /\ nMoves = 1
    /\ started = Some([orig |-> d2, dest |-> e1])
    /\ pieces[e7] # None /\ pieces[e7][1].pos = square_to_pos(e7)
    /\ lastOp = "mouse_down"
    /\ stream = <<UserMove(d2, e1, Some("Queen"))>>

====
